---- MODULE Spec2Model ----
(***************************************************************************)
(* Model of the mata-connect enrichment pipeline:                          *)
(*   - enricher/database.py           the SQLite store (communities table) *)
(*   - enricher/process_communities.py  the enrichment run over a URL list *)
(*   - enricher/load_to_mongodb.py    the batched migration to MongoDB     *)
(***************************************************************************)
EXTENDS Integers, Sequences, FiniteSets, TLC

(***************************************************************************)
(* Bounds of the model.                                                    *)
(***************************************************************************)
NumUrls == 2        \* distinct source URLs that can occur in the CSV
MaxUrls == 2        \* length of the URL list read from the CSV
MaxTime == 1        \* CURRENT_TIMESTAMP takes the values 0..MaxTime
MaxRuns == 2        \* runs of process_communities over the same CSV
MaxSaves == 3       \* direct save_community_data calls (store specification)
MaxRows == 3        \* rows of the table that a migration finds
MaxBatch == 2       \* batch_size of a migration is in 1..MaxBatch
MaxLoads == 2       \* runs of load_sqlite_to_mongodb over the same database
MaxPricingLen == 4  \* pricing models of every text up to this length are tried

UrlNames == <<"siteA.com", "siteB.com", "siteC.com", "siteD.com", "siteE.com", "siteF.com">>
URLS == {UrlNames[i] : i \in 1..NumUrls}

\* An Optional[str] is None or Str(text), text a sequence of characters.
None == [present |-> FALSE, text |-> << >>]
Str(text) == [present |-> TRUE, text |-> text]

\* JSON null (Python None) in a field whose other values are plain strings
null == "null"

(***************************************************************************)
(* CommunityInfo values returned by the collaborator.  Only the fields the *)
(* migration reads individually are kept; two values are enough to tell a  *)
(* replaced payload from the original one.                                 *)
(***************************************************************************)
CommunityInfo ==
    { [name |-> "Community One", website |-> "one.org", pricing_model |-> None],
      [name |-> "Community Two", website |-> "two.org", pricing_model |-> None] }

\* enriched_data.model_dump_json(indent=2): the JSON text of a CommunityInfo.
\* A text is a pair (kind, value); json.loads gives value back for "json"
\* texts only.
model_dump_json(enriched_data) == [kind |-> "json", value |-> enriched_data]

(***************************************************************************)
(* The text of a pricing model is a sequence of one-character strings.     *)
(***************************************************************************)

LowerLetters == <<"a", "b", "c", "d", "e", "f", "g", "h", "i", "j", "k", "l", "m",
                  "n", "o", "p", "q", "r", "s", "t", "u", "v", "w", "x", "y", "z">>
UpperLetters == <<"A", "B", "C", "D", "E", "F", "G", "H", "I", "J", "K", "L", "M",
                  "N", "O", "P", "Q", "R", "S", "T", "U", "V", "W", "X", "Y", "Z">>

\* str.upper() and str.lower(), one character at a time
UpperChar(ch) ==
    IF \E i \in DOMAIN LowerLetters : LowerLetters[i] = ch
    THEN UpperLetters[CHOOSE i \in DOMAIN LowerLetters : LowerLetters[i] = ch]
    ELSE ch
LowerChar(ch) ==
    IF \E i \in DOMAIN UpperLetters : UpperLetters[i] = ch
    THEN LowerLetters[CHOOSE i \in DOMAIN UpperLetters : UpperLetters[i] = ch]
    ELSE ch
str_upper(text) == [i \in DOMAIN text |-> UpperChar(text[i])]
str_lower(text) == [i \in DOMAIN text |-> LowerChar(text[i])]

\* sub in text
Contains(text, sub) ==
    \E k \in 0..(Len(text) - Len(sub)) : SubSeq(text, k + 1, k + Len(sub)) = sub

FREE == <<"F", "R", "E", "E">>
FREEMIUM == <<"F", "R", "E", "E", "M", "I", "U", "M">>
PAID == <<"P", "A", "I", "D">>
free == <<"f", "r", "e", "e">>

\* the upper-casing left out
pricing_model_no_upper(pricing_model) ==
    IF pricing_model.present /\ pricing_model.text # << >>
    THEN IF pricing_model.text \in {FREE, FREEMIUM, PAID} THEN Str(pricing_model.text)
         ELSE IF Contains(str_lower(pricing_model.text), free) THEN Str(FREE)
         ELSE Str(PAID)
    ELSE None

\* the test for "free" made on the upper-cased text
pricing_model_no_lower(pricing_model) ==
    IF pricing_model.present /\ pricing_model.text # << >>
    THEN LET upper == str_upper(pricing_model.text)
         IN IF upper \in {FREE, FREEMIUM, PAID} THEN Str(upper)
            ELSE IF Contains(upper, free) THEN Str(FREE)
            ELSE Str(PAID)
    ELSE None

\* transform_community_data, lines 60-71: None and "" are falsy
normalize_pricing_model(pricing_model) ==
    IF pricing_model.present /\ pricing_model.text # << >>
    THEN LET upper == str_upper(pricing_model.text)
         IN IF upper \in {FREE, FREEMIUM, PAID} THEN Str(upper)
            ELSE IF Contains(str_lower(upper), free) THEN Str(FREE)
            ELSE Str(PAID)
    ELSE None

VARIABLES
    \* --- the SQLite database file -------------------------------------
    table,       \* rows of table communities, in rowid order
    lastId,      \* sqlite_sequence: largest id ever given (AUTOINCREMENT)
    now,         \* CURRENT_TIMESTAMP
    \* --- one run of process_communities ------------------------------
    urls,        \* read_urls_from_csv(csv_path)
    pc,          \* "idle", "loop", "done", "aborted" (exception), "exited"
    idx,         \* URLs of the list visited so far
    total, processed, skipped, failed,
    calls,       \* enricher.enrich_community calls of this run, in order, each
                 \* with what became of it: "saved", "error" (the call
                 \* raised) or "save_error" (save_community_data raised)
    run,         \* number of runs started
    table0,      \* the table when the current run started
    storeErr,    \* a database call has raised during the current run
    \* --- direct calls of the database functions ----------------------
    saves,       \* save_community_data calls made by StoreSpec
    lastSave,    \* arguments of the latest of them
    \* --- one run of load_sqlite_to_mongodb ----------------------------
    batch_size,
    l_pc,        \* "idle", "loop", "done" (summary logged), "returned" (no
                 \* rows), "raised" (exception left the function),
                 \* "config_error"
    rows,        \* cursor.fetchall(): (url, enriched_data) pairs
    total_communities,
    l_idx,       \* rows visited so far
    documents,   \* the batch being built
    l_processed, l_failed,
    collection,  \* documents in the MongoDB collection
    inserts,     \* collection.insert_many calls of this run, in order
    l_run,       \* number of migration runs started
    collection0, \* the collection when the current migration run started
    \* --- one call of transform_community_data -------------------------
    t_pc,        \* "idle", "called", "returned"
    t_data,      \* argument sqlite_data
    t_url,       \* argument url
    t_doc        \* the document returned

xformVars == << t_pc, t_data, t_url, t_doc >>

loadVars == << batch_size, l_pc, rows, total_communities, l_idx, documents,
               l_processed, l_failed, collection, inserts, l_run, collection0 >>

vars == << table, lastId, now, urls, pc, idx, total, processed, skipped,
           failed, calls, run, table0, storeErr, saves, lastSave, loadVars,
           xformVars >>

storeVars == << table, lastId >>
callVars == << saves, lastSave >>
runVars == << urls, pc, idx, total, processed, skipped, failed, calls, run,
              table0, storeErr >>

(***************************************************************************)
(* enricher/database.py                                                    *)
(***************************************************************************)
\* CREATE TABLE communities: one row per INSERT, columns as declared.
Row(id, url, json_data, created, updated) ==
    [id |-> id, url |-> url, enriched_data |-> json_data,
     created_at |-> created, updated_at |-> updated]

\* SELECT COUNT(*) FROM communities WHERE url = ?
CountUrl(t, url) == Cardinality({i \in DOMAIN t : t[i].url = url})

url_exists_more_than_one(t, url) == CountUrl(t, url) > 1

\* url_exists: count > 0
url_exists(t, url) == CountUrl(t, url) > 0

save_community_data_uncommitted(t, last, url, enriched_data, ts) == t

\* a plain INSERT into a table whose url column is not UNIQUE
save_community_data_plain_insert(t, last, url, enriched_data, ts) ==
    Append(t, Row(last + 1, url, model_dump_json(enriched_data), ts, ts))

\* INSERT OR REPLACE INTO communities (url, enriched_data, updated_at)
\* VALUES (?, ?, CURRENT_TIMESTAMP): the UNIQUE constraint on url makes
\* REPLACE delete the conflicting row, then a new row is inserted; id comes
\* from AUTOINCREMENT and created_at, not listed in the statement, takes its
\* column default CURRENT_TIMESTAMP.
save_community_data(t, last, url, enriched_data, ts) ==
    Append(SelectSeq(t, LAMBDA r : r.url # url),
           Row(last + 1, url, model_dump_json(enriched_data), ts, ts))

\* SELECT enriched_data FROM communities WHERE url = ?; None if no row
NotFound == [kind |-> "none", value |-> "none"]
get_community_data(t, url) ==
    IF \E i \in DOMAIN t : t[i].url = url
    THEN LET i == CHOOSE j \in DOMAIN t : t[j].url = url IN t[i].enriched_data
    ELSE NotFound

\* the row of a URL (used by the properties)
RowOf(t, url) == t[CHOOSE j \in DOMAIN t : t[j].url = url]
StoredUrls(t) == {t[i].url : i \in DOMAIN t}

(***************************************************************************)
(* Initial database contents: rows written by earlier runs at time 0.      *)
(***************************************************************************)
RECURSIVE RowsFor(_, _)
RowsFor(n, present) ==
    IF n = 0 THEN << >>
    ELSE LET before == RowsFor(n - 1, present)
         IN IF UrlNames[n] \in present
            THEN Append(before, Row(Len(before) + 1, UrlNames[n],
                     model_dump_json(CHOOSE c \in CommunityInfo : c.name = "Community One"), 0, 0))
            ELSE before

InitStore ==
    /\ \E present \in SUBSET URLS : table = RowsFor(NumUrls, present)
    /\ lastId = Len(table)
    /\ now = 0

\* time passes
Tick ==
    /\ now < MaxTime
    /\ now' = now + 1
    /\ UNCHANGED << table, lastId, runVars, callVars, xformVars, loadVars >>

(***************************************************************************)
(* enricher/process_communities.py                                         *)
(***************************************************************************)
UrlLists == UNION {[1..n -> URLS] : n \in 0..MaxUrls}

InitRun(lists) ==
    /\ urls \in lists
    /\ pc = "idle"
    /\ idx = 0
    /\ total = 0 /\ processed = 0 /\ skipped = 0 /\ failed = 0
    /\ calls = << >>
    /\ run = 0
    /\ table0 = table
    /\ storeErr = FALSE

NoSave == [url |-> "none", data |-> "none"]
InitCalls == saves = 0 /\ lastSave = NoSave

InitLoad(sizes) ==
    /\ batch_size \in sizes
    /\ l_pc = "idle"
    /\ rows = << >>
    /\ total_communities = 0
    /\ l_idx = 0
    /\ documents = << >>
    /\ l_processed = 0 /\ l_failed = 0
    /\ collection = << >>
    /\ inserts = << >>
    /\ l_run = 0
    /\ collection0 = << >>

\* transform_community_data has not been called
NoDoc == [data_source |-> "none"]
InitTransform ==
    /\ t_pc = "idle"
    /\ t_data = CHOOSE c \in CommunityInfo : c.name = "Community One"
    /\ t_url = "none"
    /\ t_doc = NoDoc

Init == InitStore /\ InitRun(UrlLists) /\ InitCalls /\ InitLoad({1}) /\ InitTransform

\* lines 49-68: init_database (CREATE TABLE IF NOT EXISTS keeps the rows),
\* read the CSV, build the enricher, zero the counters.
StartRun ==
    /\ pc \in {"idle", "done", "aborted"}
    /\ run < MaxRuns
    /\ run' = run + 1
    /\ pc' = "loop"
    /\ idx' = 0
    /\ total' = Len(urls)
    /\ processed' = 0 /\ skipped' = 0 /\ failed' = 0
    /\ calls' = << >>
    /\ table0' = table
    /\ storeErr' = FALSE
    /\ UNCHANGED << storeVars, now, urls, callVars, xformVars, loadVars >>

\* lines 58-62: OpenAIEnricher() raises ValueError without an API key
EnricherInitFails ==
    /\ pc \in {"idle", "done", "aborted"}
    /\ run < MaxRuns
    /\ run' = run + 1
    /\ pc' = "exited"
    /\ idx' = 0
    /\ total' = 0
    /\ processed' = 0 /\ skipped' = 0 /\ failed' = 0
    /\ calls' = << >>
    /\ table0' = table
    /\ storeErr' = FALSE
    /\ UNCHANGED << storeVars, now, urls, callVars, xformVars, loadVars >>

InLoop == pc = "loop" /\ idx < total
url == urls[idx + 1]

\* the skip branch without its continue: falls through to the enrichment
SkipExisting_no_continue ==
    /\ InLoop
    /\ url_exists(table, url)
    /\ skipped' = skipped + 1
    /\ \E enriched_data \in CommunityInfo :
          /\ calls' = Append(calls, [url |-> url, outcome |-> "saved"])
          /\ table' = save_community_data(table, lastId, url, enriched_data, now)
          /\ lastId' = lastId + 1
    /\ processed' = processed + 1
    /\ idx' = idx + 1
    /\ UNCHANGED << now, urls, pc, total, failed, run, table0, storeErr,
                    callVars, xformVars, loadVars >>

\* lines 74-77: the URL is in the database
SkipExisting ==
    /\ InLoop
    /\ url_exists(table, url)
    /\ skipped' = skipped + 1
    /\ idx' = idx + 1
    /\ UNCHANGED << storeVars, now, urls, pc, total, processed, failed, calls,
                    run, table0, storeErr, callVars, xformVars, loadVars >>

\* line 74: url_exists raises (database unavailable); nothing catches it
UrlExistsRaises ==
    /\ InLoop
    /\ pc' = "aborted"
    /\ storeErr' = TRUE
    /\ UNCHANGED << storeVars, now, urls, idx, total, processed, skipped,
                    failed, calls, run, table0, callVars, xformVars, loadVars >>

\* the enrichment written to the table before it is known to have succeeded
EnrichFails_partial_row ==
    /\ InLoop
    /\ ~ url_exists(table, url)
    /\ calls' = Append(calls, [url |-> url, outcome |-> "error"])
    /\ table' = Append(table, Row(lastId + 1, url, [kind |-> "garbage", value |-> "{ name: "], now, now))
    /\ lastId' = lastId + 1
    /\ failed' = failed + 1
    /\ idx' = idx + 1
    /\ UNCHANGED << now, urls, pc, total, processed, skipped, run, table0,
                    storeErr, callVars, xformVars, loadVars >>

\* lines 80-87: enrich, save, count as processed
EnrichAndSave ==
    /\ InLoop
    /\ ~ url_exists(table, url)
    /\ \E enriched_data \in CommunityInfo :
          /\ calls' = Append(calls, [url |-> url, outcome |-> "saved"])
          /\ table' = save_community_data(table, lastId, url, enriched_data, now)
          /\ lastId' = lastId + 1
    /\ processed' = processed + 1
    /\ idx' = idx + 1
    /\ UNCHANGED << now, urls, pc, total, skipped, failed, run, table0,
                    storeErr, callVars, xformVars, loadVars >>

\* the enrichment call outside the try block: its exception ends the run
EnrichFails_uncaught ==
    /\ InLoop
    /\ ~ url_exists(table, url)
    /\ calls' = Append(calls, [url |-> url, outcome |-> "error"])
    /\ pc' = "aborted"
    /\ UNCHANGED << storeVars, now, urls, idx, total, processed, skipped,
                    failed, run, table0, storeErr, callVars, xformVars, loadVars >>

\* lines 82, 89-92: enrich_community raises
EnrichFails ==
    /\ InLoop
    /\ ~ url_exists(table, url)
    /\ calls' = Append(calls, [url |-> url, outcome |-> "error"])
    /\ failed' = failed + 1
    /\ idx' = idx + 1
    /\ UNCHANGED << storeVars, now, urls, pc, total, processed, skipped, run,
                    table0, storeErr, callVars, xformVars, loadVars >>

\* the except clause without its failed += 1
SaveFails_not_counted ==
    /\ InLoop
    /\ ~ url_exists(table, url)
    /\ calls' = Append(calls, [url |-> url, outcome |-> "save_error"])
    /\ storeErr' = TRUE
    /\ idx' = idx + 1
    /\ UNCHANGED << storeVars, now, urls, pc, total, processed, skipped, failed,
                    run, table0, callVars, xformVars, loadVars >>

\* lines 85, 89-92: save_community_data raises (sqlite3.Error is an
\* Exception); the statement was not committed
SaveFails ==
    /\ InLoop
    /\ ~ url_exists(table, url)
    /\ calls' = Append(calls, [url |-> url, outcome |-> "save_error"])
    /\ storeErr' = TRUE
    /\ failed' = failed + 1
    /\ idx' = idx + 1
    /\ UNCHANGED << storeVars, now, urls, pc, total, processed, skipped, run,
                    table0, callVars, xformVars, loadVars >>

\* lines 94-101
PrintSummary ==
    /\ pc = "loop"
    /\ idx = total
    /\ pc' = "done"
    /\ UNCHANGED << storeVars, now, urls, idx, total, processed, skipped,
                    failed, calls, run, table0, storeErr, callVars, xformVars, loadVars >>

Next ==
    \/ Tick
    \/ StartRun
    \/ EnricherInitFails
    \/ SkipExisting
    \/ UrlExistsRaises
    \/ EnrichAndSave
    \/ EnrichFails
    \/ SaveFails
    \/ PrintSummary

Spec == Init /\ [][Next]_vars

(***************************************************************************)
(* Direct use of the database functions (enricher/database.py).            *)
(***************************************************************************)
InitStoreSpec == InitStore /\ InitRun({<< >>}) /\ InitCalls /\ InitLoad({1}) /\ InitTransform

\* a caller saves a CommunityInfo for a URL
SaveCommunityData ==
    /\ saves < MaxSaves
    /\ \E u \in URLS, enriched_data \in CommunityInfo :
          /\ table' = save_community_data(table, lastId, u, enriched_data, now)
          /\ lastSave' = [url |-> u, data |-> enriched_data]
    /\ lastId' = lastId + 1
    /\ saves' = saves + 1
    /\ UNCHANGED << now, runVars, loadVars, xformVars >>

StoreNext ==
    \/ Tick
    \/ SaveCommunityData

StoreSpec == InitStoreSpec /\ [][StoreNext]_vars

(***************************************************************************)
(* enricher/load_to_mongodb.py                                             *)
(***************************************************************************)
\* Texts that can sit in column enriched_data: what save_community_data
\* wrote, a text that is not JSON, and JSON that is not an object.
TruncatedText == [kind |-> "garbage", value |-> "{ name: "]
ListText == [kind |-> "json", value |-> << >>]
StoredTexts == {model_dump_json(c) : c \in CommunityInfo} \cup {TruncatedText, ListText}

\* json.loads(json_data): the value, or JSONDecodeError
json_loads(json_data) ==
    IF json_data.kind = "json"
    THEN [ok |-> TRUE, value |-> json_data.value]
    ELSE [ok |-> FALSE, value |-> "JSONDecodeError"]

\* dict.get(key, default)
Get(d, key, default) == IF key \in DOMAIN d THEN d[key] ELSE default

\* sqlite_data.get exists only on a dict (AttributeError otherwise)
IsDict(sqlite_data) == sqlite_data \in CommunityInfo

\* data_source taken from the payload instead of the url argument
transform_community_data_source_from_payload(sqlite_data, source_url, ts) ==
    [name |-> Get(sqlite_data, "name", ""),
     website |-> Get(sqlite_data, "website", source_url),
     pricing_model |-> normalize_pricing_model(Get(sqlite_data, "pricing_model", None)),
     verified |-> FALSE,
     data_source |-> Get(sqlite_data, "website", source_url),
     created_at |-> ts,
     updated_at |-> ts]

\* transform_community_data, for the fields the model keeps; the date stamps
\* are the time of the transformation, not those of the stored row.
transform_community_data(sqlite_data, source_url, ts) ==
    [name |-> Get(sqlite_data, "name", ""),
     website |-> Get(sqlite_data, "website", source_url),
     pricing_model |-> normalize_pricing_model(Get(sqlite_data, "pricing_model", None)),
     verified |-> FALSE,
     data_source |-> source_url,
     created_at |-> ts,
     updated_at |-> ts]

\* What collection.insert_many(documents) can do with n documents (ordered
\* insert, the default): accept all of them; raise BulkWriteError at the
\* first document the server rejects, having written the ones before it,
\* with one entry in details["writeErrors"]; or raise another error
\* (connection lost, server selection timeout) with nothing written.
InsertOutcomes(n) ==
    {[kind |-> "ok", accepted |-> n, writeErrors |-> 0]}
    \cup {[kind |-> "BulkWriteError", accepted |-> j - 1, writeErrors |-> 1] : j \in 1..n}
    \cup {[kind |-> "ConnectionFailure", accepted |-> 0, writeErrors |-> 0]}

InsertCall(docs, outcome) == [docs |-> docs, outcome |-> outcome]

\* the database a migration finds: up to MaxRows rows with distinct URLs
LoaderTables ==
    UNION { { [i \in 1..n |-> Row(i, UrlNames[i], texts[i], 0, 0)] :
                texts \in [1..n -> StoredTexts] } : n \in 0..MaxRows }

InitLoaderSpec ==
    /\ table \in LoaderTables
    /\ lastId = Len(table)
    /\ now = 0
    /\ InitRun({<< >>})
    /\ InitCalls
    /\ InitLoad(1..MaxBatch) /\ InitTransform

\* the function is not running: not called yet, or a call has ended
NotMigrating == {"idle", "done", "returned", "raised", "config_error"}

\* lines 116-148: configuration and connection are fine; read all rows.
\* The function can be called while it is not running, limit times in all.
LoadStartWithin(limit) ==
    /\ l_pc \in NotMigrating
    /\ l_run < limit
    /\ l_run' = l_run + 1
    /\ collection0' = collection
    /\ rows' = [i \in DOMAIN table |-> << table[i].url, table[i].enriched_data >>]
    /\ total_communities' = Len(table)
    /\ l_pc' = IF Len(table) = 0 THEN "returned" ELSE "loop"
    /\ l_idx' = 0
    /\ documents' = << >>
    /\ l_processed' = 0 /\ l_failed' = 0
    /\ inserts' = << >>
    /\ UNCHANGED << storeVars, now, runVars, callVars, xformVars, batch_size, collection >>

\* one migration of the database
LoadStart == LoadStartWithin(1)

\* the migration run again over the same database
LoadAgain == LoadStartWithin(MaxLoads)

\* lines 117, 120-128: validate_config or MongoClient raises
LoadConfigError ==
    /\ l_pc = "idle"
    /\ l_pc' = "config_error"
    /\ UNCHANGED << storeVars, now, runVars, callVars, xformVars, batch_size, l_run,
                    collection0, rows,
                    total_communities, l_idx, documents, l_processed,
                    l_failed, collection, inserts >>

InScan == l_pc = "loop" /\ l_idx < total_communities
row_url == rows[l_idx + 1][1]
json_data == rows[l_idx + 1][2]
mongo_doc == transform_community_data(json_loads(json_data).value, row_url, now)
Transformable == json_loads(json_data).ok /\ IsDict(json_loads(json_data).value)

\* the JSONDecodeError not caught: it leaves the function
ParseFails_uncaught ==
    /\ InScan
    /\ ~ json_loads(json_data).ok
    /\ l_pc' = "raised"
    /\ UNCHANGED << storeVars, now, runVars, callVars, xformVars, batch_size, l_run,
                    collection0, rows,
                    total_communities, l_idx, documents, l_processed,
                    l_failed, collection, inserts >>

\* lines 153, 174-176: json.loads raises JSONDecodeError
ParseFails ==
    /\ InScan
    /\ ~ json_loads(json_data).ok
    /\ l_failed' = l_failed + 1
    /\ l_idx' = l_idx + 1
    /\ UNCHANGED << storeVars, now, runVars, callVars, xformVars, batch_size, l_run,
                    collection0, l_pc, rows,
                    total_communities, documents, l_processed, collection,
                    inserts >>

\* lines 156, 177-179: transform_community_data raises on a non-dict value
TransformFails ==
    /\ InScan
    /\ json_loads(json_data).ok
    /\ ~ IsDict(json_loads(json_data).value)
    /\ l_failed' = l_failed + 1
    /\ l_idx' = l_idx + 1
    /\ UNCHANGED << storeVars, now, runVars, callVars, xformVars, batch_size, l_run,
                    collection0, l_pc, rows,
                    total_communities, documents, l_processed, collection,
                    inserts >>

\* lines 153-160: the document joins a batch that is not full yet
AppendDocument ==
    /\ InScan
    /\ Transformable
    /\ Len(documents) + 1 < batch_size
    /\ documents' = Append(documents, mongo_doc)
    /\ l_idx' = l_idx + 1
    /\ UNCHANGED << storeVars, now, runVars, callVars, xformVars, batch_size, l_run,
                    collection0, l_pc, rows,
                    total_communities, l_processed, l_failed, collection,
                    inserts >>

\* lines 160-167: the batch is full and insert_many accepts it
InsertBatch ==
    /\ InScan
    /\ Transformable
    /\ Len(documents) + 1 >= batch_size
    /\ LET docs == Append(documents, mongo_doc)
           outcome == [kind |-> "ok", accepted |-> Len(docs), writeErrors |-> 0]
       IN /\ inserts' = Append(inserts, InsertCall(docs, outcome))
          /\ collection' = collection \o docs
          /\ l_processed' = l_processed + Len(docs)
    /\ documents' = << >>
    /\ l_idx' = l_idx + 1
    /\ UNCHANGED << storeVars, now, runVars, callVars, xformVars, batch_size, l_run,
                    collection0, l_pc, rows,
                    total_communities, l_failed >>

\* lines 160-162, 168-172: insert_many raises BulkWriteError
InsertBatchBulkWriteError ==
    /\ InScan
    /\ Transformable
    /\ Len(documents) + 1 >= batch_size
    /\ LET docs == Append(documents, mongo_doc)
       IN \E outcome \in InsertOutcomes(Len(docs)) :
             /\ outcome.kind = "BulkWriteError"
             /\ inserts' = Append(inserts, InsertCall(docs, outcome))
             /\ collection' = collection \o SubSeq(docs, 1, outcome.accepted)
             /\ l_failed' = l_failed + (Len(docs) - outcome.writeErrors)
    /\ documents' = << >>
    /\ l_idx' = l_idx + 1
    /\ UNCHANGED << storeVars, now, runVars, callVars, xformVars, batch_size, l_run,
                    collection0, l_pc, rows,
                    total_communities, l_processed >>

\* lines 160-162, 177-179: insert_many raises an error that is not a
\* BulkWriteError; the outer handler counts one failure and the batch stays
InsertBatchRaises ==
    /\ InScan
    /\ Transformable
    /\ Len(documents) + 1 >= batch_size
    /\ LET docs == Append(documents, mongo_doc)
       IN \E outcome \in InsertOutcomes(Len(docs)) :
             /\ outcome.kind = "ConnectionFailure"
             /\ inserts' = Append(inserts, InsertCall(docs, outcome))
             /\ documents' = docs
    /\ l_failed' = l_failed + 1
    /\ l_idx' = l_idx + 1
    /\ UNCHANGED << storeVars, now, runVars, callVars, xformVars, batch_size, l_run,
                    collection0, l_pc, rows,
                    total_communities, l_processed, collection >>

AtEnd == l_pc = "loop" /\ l_idx = total_communities

\* lines 182, 193-201: nothing left to insert; summary
SummaryNoRemainder ==
    /\ AtEnd
    /\ documents = << >>
    /\ l_pc' = "done"
    /\ UNCHANGED << storeVars, now, runVars, callVars, xformVars, batch_size, l_run,
                    collection0, rows,
                    total_communities, l_idx, documents, l_processed,
                    l_failed, collection, inserts >>

\* the summary without the insert of the remaining documents
InsertRemaining_forgotten ==
    /\ AtEnd
    /\ documents # << >>
    /\ l_pc' = "done"
    /\ UNCHANGED << storeVars, now, runVars, callVars, xformVars, batch_size, l_run,
                    collection0, rows,
                    total_communities, l_idx, documents, l_processed,
                    l_failed, collection, inserts >>

\* the remaining documents written as an upsert keyed by data_source
InsertRemaining_upsert ==
    /\ AtEnd
    /\ documents # << >>
    /\ LET outcome == [kind |-> "ok", accepted |-> Len(documents), writeErrors |-> 0]
       IN inserts' = Append(inserts, InsertCall(documents, outcome))
    /\ collection' =
          SelectSeq(collection,
                    LAMBDA d : \A k \in DOMAIN documents :
                                   documents[k].data_source # d.data_source)
          \o documents
    /\ l_processed' = l_processed + Len(documents)
    /\ l_pc' = "done"
    /\ UNCHANGED << storeVars, now, runVars, callVars, xformVars, batch_size, l_run,
                    collection0, rows, total_communities, l_idx, documents,
                    l_failed >>

\* a migration that moves: the rows of the inserted documents are deleted
InsertRemaining_deletes_rows ==
    /\ AtEnd
    /\ documents # << >>
    /\ LET outcome == [kind |-> "ok", accepted |-> Len(documents), writeErrors |-> 0]
       IN inserts' = Append(inserts, InsertCall(documents, outcome))
    /\ collection' = collection \o documents
    /\ table' = SelectSeq(table,
                          LAMBDA r : \A k \in DOMAIN documents :
                                         documents[k].data_source # r.url)
    /\ l_processed' = l_processed + Len(documents)
    /\ l_pc' = "done"
    /\ UNCHANGED << lastId, now, runVars, callVars, xformVars, batch_size, l_run,
                    collection0, rows,
                    total_communities, l_idx, documents, l_failed >>

\* lines 182-188, 193-201: the remaining documents are accepted; summary
InsertRemaining ==
    /\ AtEnd
    /\ documents # << >>
    /\ LET outcome == [kind |-> "ok", accepted |-> Len(documents), writeErrors |-> 0]
       IN inserts' = Append(inserts, InsertCall(documents, outcome))
    /\ collection' = collection \o documents
    /\ l_processed' = l_processed + Len(documents)
    /\ l_pc' = "done"
    /\ UNCHANGED << storeVars, now, runVars, callVars, xformVars, batch_size, l_run,
                    collection0, rows,
                    total_communities, l_idx, documents, l_failed >>

\* lines 182-184, 189-201: BulkWriteError on the remaining documents; summary
InsertRemainingBulkWriteError ==
    /\ AtEnd
    /\ documents # << >>
    /\ \E outcome \in InsertOutcomes(Len(documents)) :
          /\ outcome.kind = "BulkWriteError"
          /\ inserts' = Append(inserts, InsertCall(documents, outcome))
          /\ collection' = collection \o SubSeq(documents, 1, outcome.accepted)
          /\ l_failed' = l_failed + (Len(documents) - outcome.writeErrors)
    /\ l_pc' = "done"
    /\ UNCHANGED << storeVars, now, runVars, callVars, xformVars, batch_size, l_run,
                    collection0, rows,
                    total_communities, l_idx, documents, l_processed >>

\* lines 182-184: another error on the remaining documents; no handler
InsertRemainingRaises ==
    /\ AtEnd
    /\ documents # << >>
    /\ \E outcome \in InsertOutcomes(Len(documents)) :
          /\ outcome.kind = "ConnectionFailure"
          /\ inserts' = Append(inserts, InsertCall(documents, outcome))
    /\ l_pc' = "raised"
    /\ UNCHANGED << storeVars, now, runVars, callVars, xformVars, batch_size, l_run,
                    collection0, rows,
                    total_communities, l_idx, documents, l_processed,
                    l_failed, collection >>

LoaderNext ==
    \/ Tick
    \/ LoadStart
    \/ LoadConfigError
    \/ ParseFails
    \/ TransformFails
    \/ AppendDocument
    \/ InsertBatch
    \/ InsertBatchBulkWriteError
    \/ InsertBatchRaises
    \/ SummaryNoRemainder
    \/ InsertRemaining
    \/ InsertRemainingBulkWriteError
    \/ InsertRemainingRaises

LoaderSpec == InitLoaderSpec /\ [][LoaderNext]_vars

(***************************************************************************)
(* Repeated migrations of a database of well-formed rows.                  *)
(***************************************************************************)
WellFormedTables ==
    UNION { { [i \in 1..n |-> Row(i, UrlNames[i], texts[i], 0, 0)] :
                texts \in [1..n -> {model_dump_json(c) : c \in CommunityInfo}] } :
            n \in 0..MaxRows }

InitRemigrateSpec ==
    /\ table \in WellFormedTables
    /\ lastId = Len(table)
    /\ now = 0
    /\ InitRun({<< >>})
    /\ InitCalls
    /\ InitLoad(1..MaxBatch) /\ InitTransform

RemigrateNext ==
    \/ LoadAgain
    \/ AppendDocument
    \/ InsertBatch
    \/ InsertBatchBulkWriteError
    \/ InsertBatchRaises
    \/ SummaryNoRemainder
    \/ InsertRemaining
    \/ InsertRemainingBulkWriteError
    \/ InsertRemainingRaises

RemigrateSpec == InitRemigrateSpec /\ [][RemigrateNext]_vars

(***************************************************************************)
(* The two phases one after the other: enrichment runs, then a migration   *)
(* of what they stored.  One program runs at a time; the database starts   *)
(* empty, so every row was written by save_community_data.                 *)
(***************************************************************************)
InitPipelineSpec ==
    /\ table = << >> /\ lastId = 0 /\ now = 0
    /\ InitRun(UrlLists) /\ InitCalls /\ InitLoad(1..MaxBatch) /\ InitTransform

PipelineNext ==
    \/ (l_pc = "idle" /\ StartRun)
    \/ (l_pc = "idle" /\ EnricherInitFails)
    \/ (l_pc = "idle" /\ SkipExisting)
    \/ (l_pc = "idle" /\ UrlExistsRaises)
    \/ (l_pc = "idle" /\ EnrichAndSave)
    \/ (l_pc = "idle" /\ EnrichFails)
    \/ (l_pc = "idle" /\ SaveFails)
    \/ (l_pc = "idle" /\ PrintSummary)
    \/ (pc # "loop" /\ LoadStart)
    \/ (pc # "loop" /\ LoadConfigError)
    \/ (pc # "loop" /\ AppendDocument)
    \/ (pc # "loop" /\ InsertBatch)
    \/ (pc # "loop" /\ InsertBatchBulkWriteError)
    \/ (pc # "loop" /\ InsertBatchRaises)
    \/ (pc # "loop" /\ SummaryNoRemainder)
    \/ (pc # "loop" /\ InsertRemaining)
    \/ (pc # "loop" /\ InsertRemainingBulkWriteError)
    \/ (pc # "loop" /\ InsertRemainingRaises)

PipelineSpec == InitPipelineSpec /\ [][PipelineNext]_vars

(***************************************************************************)
(* One call of transform_community_data on a payload whose pricing_model   *)
(* is None, a text seen in practice, or any text over a small alphabet.    *)
(***************************************************************************)
PricingExamples ==
    { <<"f", "r", "e", "e">>,
      <<"F", "r", "e", "e">>,
      <<"F", "R", "E", "E">>,
      <<"f", "r", "e", "e", "m", "i", "u", "m">>,
      <<"F", "r", "e", "e", "m", "i", "u", "m">>,
      <<"F", "R", "E", "E", "M", "I", "U", "M">>,
      <<"p", "a", "i", "d">>,
      <<"P", "a", "i", "d">>,
      <<"P", "A", "I", "D">>,
      <<"S", "u", "b", "s", "c", "r", "i", "p", "t", "i", "o", "n">>,
      <<"F", "r", "e", "e", "m", "i", "u", "m", " ", "P", "l", "a", "n">>,
      <<"f", "r", "e", "e", " ", "t", "r", "i", "a", "l">>,
      <<"N", "o", "t", " ", "f", "r", "e", "e">>,
      <<"D", "o", "n", "a", "t", "i", "o", "n">> }
PricingAlphabet == {"f", "F", "r", "R", "e", "E", "x"}
PricingTexts ==
    PricingExamples \cup UNION {[1..n -> PricingAlphabet] : n \in 0..MaxPricingLen}
PricingModels == {None} \cup {Str(text) : text \in PricingTexts}

\* parsed payloads: a CommunityInfo with each pricing model, a dict without
\* the pricing_model key, a dict whose website is null, and a dict without
\* the website key
TransformInputs ==
    {[name |-> "Community One", website |-> "one.org", pricing_model |-> pm] :
        pm \in PricingModels}
    \cup {[name |-> "Community One", website |-> "one.org"]}
    \cup {[name |-> "Community One", website |-> null, pricing_model |-> None]}
    \cup {[name |-> "Community One", pricing_model |-> None]}

InitTransformSpec ==
    /\ table = << >> /\ lastId = 0 /\ now = 0
    /\ InitRun({<< >>})
    /\ InitCalls
    /\ InitLoad({1})
    /\ t_pc = "called"
    /\ t_data \in TransformInputs
    /\ t_url \in URLS
    /\ t_doc = NoDoc

\* lines 38-105
Transform ==
    /\ t_pc = "called"
    /\ t_doc' = transform_community_data(t_data, t_url, now)
    /\ t_pc' = "returned"
    /\ UNCHANGED << storeVars, now, runVars, callVars, loadVars, t_data, t_url >>

TransformNext ==
    \/ Tick
    \/ Transform

TransformSpec == InitTransformSpec /\ [][TransformNext]_vars

(***************************************************************************)
(* Properties of process_communities                                       *)
(***************************************************************************)
NCalls(u) == Cardinality({i \in DOMAIN calls : calls[i].url = u})
Occurrences(u, n) == Cardinality({i \in 1..n : urls[i] = u})
LastCall == calls[Len(calls)]

\* C1: when the URL that the loop has reached is already in the store, no
\* step calls the collaborator or changes the store, and the step that moves
\* on to the next URL adds exactly one to skipped (and nothing to the other
\* counters).
C1_SkipStoredUrl ==
    [][ (InLoop /\ url \in StoredUrls(table)) =>
          /\ calls' = calls
          /\ table' = table
          /\ idx' = idx + 1 =>
                /\ skipped' = skipped + 1
                /\ processed' = processed
                /\ failed' = failed ]_vars

C1_Witness == pc = "loop" /\ skipped > 0 /\ table # << >>

\* C2 as stated: within one run the collaborator is invoked at most once per
\* URL, whatever the list and the outcomes.
C2_AtMostOncePerUrl == \A u \in URLS : NCalls(u) <= 1

\* C2 amended: the collaborator is invoked at most once per occurrence of a
\* URL among the visited list positions, never for a URL that was in the
\* store when the run started, and never again for a URL after a call for it
\* was saved; a URL is invoked again only where it occurs again in the list
\* after a failed attempt.
C2_AtMostOncePerOccurrence ==
    /\ \A u \in URLS :
          /\ NCalls(u) <= Occurrences(u, idx)
          /\ u \in StoredUrls(table0) => NCalls(u) = 0
    /\ \A i, j \in DOMAIN calls :
          (i < j /\ calls[i].url = calls[j].url) => calls[i].outcome # "saved"

C2_Witness ==
    \E i, j \in DOMAIN calls :
        i < j /\ calls[i].url = calls[j].url /\ calls[j].outcome = "saved"

AllSkipped == calls = << >> /\ table = table0 /\ (pc = "done" => skipped = total)

\* C3 as stated: the second run over the same list and store makes no
\* enrichment call, counts every URL as skipped and leaves the store as it
\* found it.
C3_SecondRunIdle == run = 2 => AllSkipped

\* C3 amended: a run that completes with failed = 0 leaves every URL of the
\* list in the store, and a second run that finds every URL of the list in
\* the store makes no enrichment call, counts every URL as skipped and leaves
\* the store unchanged; URLs whose enrichment failed in the first run are
\* enriched again by the second.
C3_SecondRunIdleAfterCleanRun ==
    /\ (pc = "done" /\ failed = 0) =>
          \A i \in DOMAIN urls : urls[i] \in StoredUrls(table)
    /\ (run = 2 /\ \A i \in DOMAIN urls : urls[i] \in StoredUrls(table0)) =>
          AllSkipped

C3_Witness ==
    /\ run = 2 /\ pc = "done" /\ Len(urls) >= 2 /\ skipped = total
    /\ \E i \in DOMAIN table0 : table0[i].enriched_data.value.name = "Community Two"

\* C5: a step in which the collaborator raises adds exactly one to failed and
\* moves to the next URL with the run still going; only a failing database
\* call ends a run early, and the summary is reached with every URL of the
\* list visited.
C5_EnrichmentFailureIsolated ==
    /\ [][ (Len(calls') = Len(calls) + 1 /\ calls'[Len(calls')].outcome = "error") =>
             /\ failed' = failed + 1
             /\ processed' = processed /\ skipped' = skipped
             /\ idx' = idx + 1
             /\ pc' = "loop"
             /\ table' = table ]_vars
    /\ [](pc = "aborted" => storeErr)
    /\ [](pc = "done" => (idx = Len(urls) /\ total = Len(urls)))

C5_Witness ==
    /\ pc = "done" /\ failed = 1 /\ processed = 1 /\ idx = 2
    /\ calls[1].outcome = "error" /\ calls[2].outcome = "saved"

\* C10 as stated: a database call that fails during the run (existence check
\* or save) ends the run there: no later URL is enriched or written.
C10_StorageFailureFatal ==
    [][ /\ (storeErr' /\ ~ storeErr) => pc' = "aborted"
        /\ (storeErr /\ run' = run) => (calls' = calls /\ table' = table) ]_vars

(***************************************************************************)
(* Properties of the database functions                                    *)
(***************************************************************************)
\* C4 as stated: save_community_data for a URL that already has a row
\* replaces the payload, sets updated_at to the current time and leaves the
\* row's created_at as it was.
C4_UpsertKeepsCreatedAt ==
    [][ (saves' = saves + 1 /\ lastSave'.url \in StoredUrls(table)) =>
          LET old == RowOf(table, lastSave'.url)
              new == RowOf(table', lastSave'.url)
          IN /\ new.enriched_data = model_dump_json(lastSave'.data)
             /\ new.updated_at = now
             /\ new.created_at = old.created_at ]_vars

(***************************************************************************)
(* Properties of load_sqlite_to_mongodb                                    *)
(***************************************************************************)
\* a step that makes an insert_many call, and that call
InsertStep == Len(inserts') = Len(inserts) + 1
NewInsert == inserts'[Len(inserts')]
Sources(docs) == {docs[k].data_source : k \in DOMAIN docs}
Sent == UNION {Sources(inserts[i].docs) : i \in DOMAIN inserts}
Undecodable(i) == ~ json_loads(rows[i][2]).ok
TransformableRow(i) == json_loads(rows[i][2]).ok /\ IsDict(json_loads(rows[i][2]).value)

\* C6 as stated: when insert_many raises BulkWriteError for n documents of
\* which k were rejected and n-k accepted, the loader adds n-k to the
\* succeeded count and k to the failed count, and goes on.
C6_PartialBatchCounts ==
    [][ (/\ InsertStep
         /\ NewInsert.outcome.kind = "BulkWriteError"
         /\ NewInsert.outcome.accepted = Len(NewInsert.docs) - NewInsert.outcome.writeErrors) =>
          /\ l_processed' = l_processed + NewInsert.outcome.accepted
          /\ l_failed' = l_failed + NewInsert.outcome.writeErrors
          /\ l_pc' \in {"loop", "done"} ]_vars

\* C7 as stated: when insert_many fails entirely (not a BulkWriteError), all
\* documents of that batch are counted as failed, none as succeeded, and the
\* loader goes on with the next batch: the run is not aborted and the next
\* batch starts empty.
C7_FullFailureCounts ==
    [][ (InsertStep /\ NewInsert.outcome.kind = "ConnectionFailure") =>
          /\ l_failed' = l_failed + Len(NewInsert.docs)
          /\ l_processed' = l_processed
          /\ l_pc' \in {"loop", "done"}
          /\ documents' = << >> ]_vars

\* C8 as stated: no undecodable payload and no destination write error, in
\* any batch including the last, makes an exception leave the loader.
C8_NoErrorEscapes == l_pc # "raised"

\* C9: the step that meets an undecodable payload adds exactly one to failed
\* and changes nothing else but the scan position; no insert_many call and no
\* batch ever holds a document of such a row; every other visited row that
\* can be transformed is in the current batch or was passed to insert_many,
\* and when the loader ends all of them were passed to insert_many.
C9_CorruptRecordSkipped ==
    /\ [][ (InScan /\ Undecodable(l_idx + 1) /\ l_idx' = l_idx + 1) =>
             /\ l_failed' = l_failed + 1
             /\ l_processed' = l_processed
             /\ documents' = documents
             /\ inserts' = inserts
             /\ collection' = collection
             /\ l_pc' = "loop" ]_vars
    /\ [](\A i \in DOMAIN rows :
             /\ Undecodable(i) =>
                   rows[i][1] \notin Sent \cup Sources(documents) \cup Sources(collection)
             /\ (TransformableRow(i) /\ i <= l_idx) =>
                   rows[i][1] \in Sent \cup Sources(documents)
             /\ (TransformableRow(i) /\ l_pc \in {"done", "raised"}) =>
                   rows[i][1] \in Sent)
    /\ [](l_pc \in {"done", "raised"} => l_idx = total_communities)

C9_Witness ==
    /\ l_pc = "done"
    /\ total_communities = 3
    /\ Undecodable(2)
    /\ l_failed = 1
    /\ {rows[1][1], rows[3][1]} \subseteq Sources(collection)

(***************************************************************************)
(* Further properties of the database functions                            *)
(***************************************************************************)
\* C13: after any sequence of save_community_data calls no URL has more than
\* one row, a URL once saved keeps a row, a save changes the payload of no
\* other URL, and get_community_data of the URL saved last returns the
\* payload of that save; so every URL ever saved has exactly one row, which
\* holds the payload of the most recent save for that URL.
C13_OneRowPerUrl ==
    /\ [](\A u \in URLS : CountUrl(table, u) <= 1)
    /\ [](saves > 0 =>
            /\ CountUrl(table, lastSave.url) = 1
            /\ get_community_data(table, lastSave.url) = model_dump_json(lastSave.data))
    /\ [][ /\ StoredUrls(table) \subseteq StoredUrls(table')
           /\ \A u \in URLS :
                 (saves' = saves + 1 /\ u # lastSave'.url) =>
                     get_community_data(table', u) = get_community_data(table, u) ]_vars

C13_Witness ==
    /\ saves = 3
    /\ Len(table) = 2
    /\ lastSave.url = table[2].url
    /\ lastSave.data.name = "Community Two"
    /\ table[2].id = 3
    /\ table[1].id = 2
    /\ table[1].enriched_data.value.name = "Community One"

(***************************************************************************)
(* Further properties of process_communities                               *)
(***************************************************************************)
UrlsWith(outcomes) == {calls[i].url : i \in {j \in DOMAIN calls : calls[j].outcome \in outcomes}}

\* C16 as stated: at every point of a run the URLs in the store are the
\* initial ones plus the URLs whose enrichment call succeeded so far.
C16_StoreIsInitialPlusEnriched ==
    run >= 1 => StoredUrls(table) = StoredUrls(table0) \cup UrlsWith({"saved", "save_error"})

\* C16 amended: at every point of a run the URLs in the store are the initial
\* ones plus the URLs whose enrichment call succeeded and whose result was
\* saved (those counted as processed); a step whose enrichment call or save
\* fails writes no row; the rows present when the run started are unchanged.
C16_StoreIsInitialPlusSaved ==
    /\ [](run >= 1 =>
            /\ StoredUrls(table) = StoredUrls(table0) \cup UrlsWith({"saved"})
            /\ Len(table) = Len(table0) + processed
            /\ SubSeq(table, 1, Len(table0)) = table0)
    /\ [][ (Len(calls') = Len(calls) + 1 /\ calls'[Len(calls')].outcome # "saved") =>
             table' = table ]_vars

C16_Witness ==
    /\ pc = "done" /\ table0 # << >> /\ processed = 1 /\ failed = 1
    /\ Len(table) = Len(table0) + 1

(***************************************************************************)
(* Further properties of load_sqlite_to_mongodb                            *)
(***************************************************************************)
RowIndex(source) == CHOOSE i \in DOMAIN rows : rows[i][1] = source
RowIndexes(docs) == {RowIndex(docs[k].data_source) : k \in DOMAIN docs}

\* C17 as stated: within one migration run no document is passed to
\* insert_many in more than one call.
C17_NoResubmission ==
    \A i, j \in DOMAIN inserts :
        i < j => Sources(inserts[i].docs) \cap Sources(inserts[j].docs) = {}

\* C18 as stated: every insert_many call carries at most batch_size
\* documents, and its documents come from rows that are contiguous in scan
\* order (no transformable row between two of them is left out).
C18_BatchSizeBound ==
    \A c \in DOMAIN inserts :
        /\ Len(inserts[c].docs) <= batch_size
        /\ \A a, b \in RowIndexes(inserts[c].docs), r \in DOMAIN rows :
              (a < r /\ r < b /\ TransformableRow(r)) => r \in RowIndexes(inserts[c].docs)

\* C19: when the loader ends (summary logged, or the last insert_many
\* raised), every row that was parsed and transformed has been passed to
\* insert_many in some call, the documents of a last batch shorter than
\* batch_size included: nothing in the batch under construction is unsent.
C19_TrailingBatchFlushed ==
    l_pc \in {"done", "raised"} =>
        /\ Sources(documents) \subseteq Sent
        /\ \A i \in DOMAIN rows : TransformableRow(i) => rows[i][1] \in Sent

C19_Witness ==
    /\ l_pc = "done"
    /\ batch_size = 2
    /\ Len(inserts) = 2
    /\ Len(inserts[2].docs) = 1
    /\ inserts[2].outcome.kind = "ok"
    /\ Len(collection) = 3

\* C20 as stated: when the summary is logged, succeeded + failed equals the
\* number of rows scanned.
C20_LoaderCountsAddUp ==
    l_pc = "done" => l_processed + l_failed = total_communities

(***************************************************************************)
(* Properties of repeated and end-to-end migrations                        *)
(***************************************************************************)
AllAccepted == \A i \in DOMAIN inserts : inserts[i].outcome.kind = "ok"
CountSource(docs, source) == Cardinality({k \in DOMAIN docs : docs[k].data_source = source})

\* C12: a migration run over n well-formed rows in which the destination
\* accepts every document appends n documents to the collection, one per
\* row, whatever the collection held before; so after k such runs over the
\* unchanged store the collection holds k*n documents.
C12_InsertNotUpsert ==
    (l_pc \in {"done", "returned"} /\ AllAccepted) =>
        /\ Len(collection) = Len(collection0) + Len(table)
        /\ SubSeq(collection, 1, Len(collection0)) = collection0
        /\ \A i \in DOMAIN table :
              CountSource(collection, table[i].url) = CountSource(collection0, table[i].url) + 1
        /\ Len(collection0) = (l_run - 1) * Len(table) =>
              Len(collection) = l_run * Len(table)

C12_Witness ==
    /\ l_pc = "done" /\ AllAccepted
    /\ l_run = 2
    /\ Len(table) = 2
    /\ Len(collection) = 4
    /\ \A i \in DOMAIN table : CountSource(collection, table[i].url) = 2

Distinct(seq) == \A i, j \in DOMAIN seq : seq[i] = seq[j] => i = j
AllEnriched == ~ storeErr /\ \A i \in DOMAIN calls : calls[i].outcome # "error"

\* C11: for a list of n distinct URLs, a store that was empty and a
\* collaborator that succeeded for all of them, the finished enrichment run
\* leaves exactly n rows, one per URL, and the summary total n, processed n,
\* skipped 0, failed 0; a migration of that store with batch_size >= n in
\* which every document is accepted leaves exactly n documents in the
\* collection, one per URL, each with data_source equal to its URL.
C11_EndToEnd ==
    (pc = "done" /\ table0 = << >> /\ Distinct(urls) /\ AllEnriched) =>
        /\ Len(table) = Len(urls)
        /\ \A i \in DOMAIN urls : CountUrl(table, urls[i]) = 1
        /\ total = Len(urls) /\ processed = Len(urls) /\ skipped = 0 /\ failed = 0
        /\ (l_pc \in {"done", "returned"} /\ batch_size >= Len(urls) /\ AllAccepted) =>
              /\ Len(collection) = Len(urls)
              /\ \A i \in DOMAIN urls : CountSource(collection, urls[i]) = 1

C11_Witness ==
    /\ pc = "done" /\ table0 = << >> /\ Distinct(urls) /\ AllEnriched
    /\ Len(urls) = 2 /\ processed = 2
    /\ l_pc = "done" /\ batch_size = 2 /\ AllAccepted
    /\ Len(collection) = 2
    /\ collection[1].data_source = urls[1] /\ collection[2].data_source = urls[2]

(***************************************************************************)
(* Properties of transform_community_data                                  *)
(***************************************************************************)
\* the pricing model given and the one returned
GivenPricing == IF "pricing_model" \in DOMAIN t_data THEN t_data.pricing_model ELSE None
ReturnedPricing == t_doc.pricing_model

\* text equals word, or contains word, letter case ignored
SameLetter(a, b) == a = b \/ UpperChar(a) = b \/ a = UpperChar(b)
EqualsIgnoringCase(text, word) ==
    Len(text) = Len(word) /\ \A i \in DOMAIN word : SameLetter(text[i], word[i])
ContainsIgnoringCase(text, word) ==
    \E k \in 0..(Len(text) - Len(word)) :
        \A i \in DOMAIN word : SameLetter(text[k + i], word[i])

\* the canonical pricing model the rule gives for a text
Canonical(text) ==
    IF EqualsIgnoringCase(text, FREE) THEN FREE
    ELSE IF EqualsIgnoringCase(text, FREEMIUM) THEN FREEMIUM
    ELSE IF EqualsIgnoringCase(text, PAID) THEN PAID
    ELSE IF ContainsIgnoringCase(text, free) THEN FREE
    ELSE PAID

\* C14 as stated: the returned pricing_model is null when the input is
\* absent, and otherwise one of FREE, FREEMIUM, PAID: the upper-cased input
\* if that is one of the three, else FREE if the input contains "free" in any
\* letter case, else PAID.
C14_PricingCanonical ==
    t_pc = "returned" =>
        IF ~ GivenPricing.present
        THEN ReturnedPricing = None
        ELSE /\ ReturnedPricing.present
             /\ ReturnedPricing.text \in {FREE, FREEMIUM, PAID}
             /\ ReturnedPricing.text = Canonical(GivenPricing.text)

\* C14 amended: the returned pricing_model is null when the input is absent
\* or the empty string, and otherwise one of FREE, FREEMIUM, PAID, chosen as
\* stated.
C14_PricingCanonicalNonEmpty ==
    t_pc = "returned" =>
        IF ~ GivenPricing.present \/ GivenPricing.text = << >>
        THEN ReturnedPricing = None
        ELSE /\ ReturnedPricing.present
             /\ ReturnedPricing.text \in {FREE, FREEMIUM, PAID}
             /\ ReturnedPricing.text = Canonical(GivenPricing.text)

C14_Witness ==
    /\ t_pc = "returned"
    /\ GivenPricing = Str(<<"F", "r", "e", "e", "m", "i", "u", "m">>)
    /\ ReturnedPricing = Str(FREEMIUM)

FreemiumPlan == <<"F", "r", "e", "e", "m", "i", "u", "m", " ", "P", "l", "a", "n">>

\* C15 as stated: the pricing model "Freemium Plan" is normalized to "PAID".
C15_FreemiumPlanPaid ==
    (t_pc = "returned" /\ GivenPricing = Str(FreemiumPlan)) => ReturnedPricing = Str(PAID)

\* C15 amended: the pricing model "Freemium Plan" is normalized to "FREE".
C15_FreemiumPlanFree ==
    (t_pc = "returned" /\ GivenPricing = Str(FreemiumPlan)) => ReturnedPricing = Str(FREE)

C15_Witness == t_pc = "returned" /\ GivenPricing = Str(FreemiumPlan) /\ ReturnedPricing.present

(***************************************************************************)
(* Count conservation in process_communities                               *)
(***************************************************************************)
\* C21: after each loop iteration processed + skipped + failed equals the
\* number of URLs visited so far (every iteration adds one to exactly one
\* counter), and when the summary is printed the three counters add up to
\* total, the length of the URL list with its duplicates.
C21_CountsAddUp ==
    /\ [](pc \in {"loop", "done", "aborted"} => processed + skipped + failed = idx)
    /\ [][ idx' = idx + 1 =>
             (processed' + skipped' + failed') = (processed + skipped + failed) + 1 ]_vars
    /\ [](pc = "done" =>
            /\ total = Len(urls)
            /\ processed + skipped + failed = total)

\* a finished run over a list that names one URL twice: the first occurrence
\* went through the collaborator (saved or failed), the second was counted too
C21_Witness ==
    /\ pc = "done"
    /\ total = 2
    /\ urls[1] = urls[2]
    /\ Len(calls) >= 1
    /\ processed + skipped + failed = 2

(***************************************************************************)
(* The migration and the database it reads                                 *)
(***************************************************************************)
Snapshot(t) == [i \in DOMAIN t |-> << t[i].url, t[i].enriched_data >>]

\* C22: no step of load_sqlite_to_mongodb changes the table or its id
\* sequence, whatever insert_many does; the rows are read once, before the
\* first insert_many call, and every call works on that reading; so the table
\* after the migration is the table before it.
C22_MigrationReadsOnly ==
    /\ [][table' = table /\ lastId' = lastId]_vars
    /\ [][l_pc = "loop" => rows' = rows]_vars
    /\ [][InsertStep => (rows = Snapshot(table) /\ l_pc = "loop")]_vars
    /\ [](l_pc \in {"loop", "done", "raised", "returned"} => rows = Snapshot(table))

\* a finished migration of three rows in which the destination accepted one
\* call, rejected a document in another and was unreachable in a third
C22_Witness ==
    /\ l_pc = "done"
    /\ Len(table) = 3
    /\ collection # << >>
    /\ \E i \in DOMAIN inserts : inserts[i].outcome.kind = "BulkWriteError"
    /\ \E i \in DOMAIN inserts : inserts[i].outcome.kind = "ConnectionFailure"
    /\ \E i \in DOMAIN inserts : inserts[i].outcome.kind = "ok"

(***************************************************************************)
(* The website of the document                                             *)
(***************************************************************************)
WebsiteAbsent == "website" \notin DOMAIN t_data \/ t_data.website = null

\* C23 as stated: the document's website is the url argument when the
\* payload's website is null or its key is missing, and the payload's
\* website otherwise.
C23_WebsiteDefaults ==
    t_pc = "returned" =>
        t_doc.website = IF WebsiteAbsent THEN t_url ELSE t_data.website

====
